---- MODULE Spec2Model ----
(***************************************************************************)
(* Model of the fpm API server's import pipeline (stage / commit /         *)
(* rollback over ImportBatch, ImportRow and Transaction) and of its        *)
(* position accounting (Holding / Trade), as implemented by the route      *)
(* handlers in src/apps/api/prisma/seed.ts.                                *)
(*                                                                         *)
(* Every handler is a sequence of awaited Prisma calls with no enclosing   *)
(* $transaction.  Each awaited call is one atomic step of the store, so a  *)
(* handler is a small process whose steps interleave with those of the     *)
(* other requests in flight.                                               *)
(***************************************************************************)
EXTENDS Integers, Sequences, FiniteSets, Bags, TLC

(***************************************************************************)
(* Bounds of the model.                                                    *)
(***************************************************************************)
MaxBatches == 2     \* ImportBatches created in a run
MaxReqs == 3        \* requests issued in a run with two request slots
MaxSeqReqs == 4     \* requests issued in a run that serves one request at a time
MaxTrades == 3      \* trade requests issued in a run with two request slots
MaxSeqTrades == 4
MaxPortfolioReqs == 3
MaxReimportReqs == 5   \* trade requests issued in a run that serves one at a time

(***************************************************************************)
(* Static tables: users and the accounts they own.                         *)
(***************************************************************************)
Users == {"u1", "u2"}
AccountIds == {"acc1", "acc2"}
AccountOwner(a) == IF a = "acc1" THEN "u1" ELSE "u2"
Procs == {"p1", "p2"}
BatchIds == 1..MaxBatches

(***************************************************************************)
(* Rows as submitted to POST /imports/stage.  amount is a JSON value: a    *)
(* number or a string holding the same digits.                             *)
(***************************************************************************)
Num(n) == [type |-> "number", val |-> n]
Str(n) == [type |-> "string", val |-> n]
RowA == [date |-> "2024-01-01", description |-> "A", merchant |-> "", amount |-> Num(10)]
RowAStr == [date |-> "2024-01-01", description |-> "A", merchant |-> "", amount |-> Str(10)]
RowB == [date |-> "2024-01-02", description |-> "B", merchant |-> "", amount |-> Num(20)]
RowBad == [date |-> "n/a", description |-> "A", merchant |-> "", amount |-> Num(10)]
\* the row lists a client submits: none, one, two alike, two different, one
\* that does not parse, and a list whose third row repeats its first
RowLists ==
  {<<>>, <<RowA>>, <<RowAStr>>, <<RowA, RowA>>, <<RowA, RowB>>, <<RowA, RowBad>>,
   <<RowA, RowB, RowA>>}

(***************************************************************************)
(* Conversions used by the handlers.                                       *)
(***************************************************************************)
InvalidDate == 0
\* new Date(data.date): a day number, or Invalid Date for text that is no date
ParseDate(s) ==
  CASE s = "2024-01-01" -> 1
    [] s = "2024-01-02" -> 2
    [] OTHER -> InvalidDate
\* parseFloat(data.amount): the number itself, or the number a string spells
ParseFloat(a) == a.val
\* JSON.stringify(row): the text depends on the value's type as well as on its digits
Stringify(row) == <<row.date, row.description, row.merchant, row.amount.type, row.amount.val>>
\* sha256(...).digest('hex'), collision free: one digest per serialized text
NoHash == <<>>
RowHash(row) == Stringify(row)

VARIABLES
  batches,      \* ImportBatch table: id -> [userId, status, rowCount, committedAt]
  importRows,   \* ImportRow table: set of [batchId, rowNumber, rawData, rowHash, isDupe]
  txs,          \* Transaction table: bag of [accountId, date, description, merchant, amount, importBatchId, rowHash]
  now,          \* the store's clock, read by new Date()
  pc,           \* per request slot: the await the handler is at
  req,          \* per request slot: the request being served, n its serial number
  loc,          \* per request slot: the handler's local variables
  resp,         \* per request slot: the last response sent
  reqCount,     \* requests issued so far
  staged,       \* per batch, the total and duplicates its stage response reported
                \* and the existingHashes its flags were computed from
  holdings,     \* Holding table: set of [id, portfolioId, symbol, shares, costBasis]
  trades,       \* Trade table, in insertion order
  nextHoldingId \* ids are never reused

importVars == <<batches, importRows, txs, now, staged>>
tradeVars == <<holdings, trades, nextHoldingId>>
vars == <<batches, importRows, txs, now, pc, req, loc, resp, reqCount, staged,
          holdings, trades, nextHoldingId>>

NoReq == [op |-> "none"]
NoLoc == [at |-> "none"]
NoResp == [kind |-> "none"]

Init ==
  /\ batches = <<>>
  /\ importRows = {}
  /\ txs = EmptyBag
  /\ now = 1
  /\ pc = [p \in Procs |-> "idle"]
  /\ req = [p \in Procs |-> NoReq]
  /\ loc = [p \in Procs |-> NoLoc]
  /\ resp = [p \in Procs |-> NoResp]
  /\ reqCount = 0
  /\ staged = <<>>
  /\ holdings = {}
  /\ trades = <<>>
  /\ nextHoldingId = 1

(***************************************************************************)
(* Table helpers.                                                          *)
(***************************************************************************)
RECURSIVE BagOfSeq(_)
BagOfSeq(s) == IF s = <<>> THEN EmptyBag ELSE SetToBag({Head(s)}) (+) BagOfSeq(Tail(s))
\* the rows of a bag that pass a where-clause, with their multiplicities
BagWhere(B, Test(_)) == [t \in {s \in DOMAIN B : Test(s)} |-> B[t]]
BagSize(B) == BagCardinality(B)
\* a set of ImportRows as the list findMany returns, ordered by rowNumber
RECURSIVE RowsInOrder(_)
RowsInOrder(R) ==
  IF R = {} THEN <<>>
  ELSE LET first == CHOOSE r \in R : \A o \in R : r.rowNumber <= o.rowNumber
       IN  <<first>> \o RowsInOrder(R \ {first})
MapSeq(s, F(_)) == [i \in 1..Len(s) |-> F(s[i])]
BatchExists(b) == b \in DOMAIN batches
RowsOf(b) == {r \in importRows : r.batchId = b}
TxsOfBatch(b) == BagWhere(txs, LAMBDA t : t.importBatchId = b)
TxsOfUser(u) == BagWhere(txs, LAMBDA t : AccountOwner(t.accountId) = u)

Finish(p, response) ==
  /\ pc' = [pc EXCEPT ![p] = "idle"]
  /\ loc' = [loc EXCEPT ![p] = NoLoc]
  /\ resp' = [resp EXCEPT ![p] = response]

(***************************************************************************)
(* POST /imports/stage                                                     *)
(***************************************************************************)
\* prisma.importBatch.create
StageCreate(p, user, rows) ==
  /\ pc[p] = "idle"
  /\ Len(batches) < MaxBatches
  /\ batches' = Append(batches,
       [userId |-> user, status |-> "staged", rowCount |-> Len(rows), committedAt |-> 0])
  /\ req' = [req EXCEPT ![p] = [n |-> reqCount + 1, op |-> "stage", user |-> user, rows |-> rows]]
  /\ loc' = [loc EXCEPT ![p] = [at |-> "stage", batchId |-> Len(batches) + 1]]
  /\ pc' = [pc EXCEPT ![p] = "stage_snapshot"]
  /\ reqCount' = reqCount + 1
  /\ UNCHANGED <<importRows, txs, now, resp, staged>>
  /\ UNCHANGED tradeVars

\* existingHashes: rowHash of the caller's Transactions, nulls filtered out
ExistingHashesOfAllUsers(user) == {t.rowHash : t \in DOMAIN txs} \ {NoHash}

ExistingHashes(user) == {t.rowHash : t \in DOMAIN TxsOfUser(user)} \ {NoHash}

StageSnapshot(p) ==
  /\ pc[p] = "stage_snapshot"
  /\ loc' = [loc EXCEPT ![p] =
       [at |-> "stage", batchId |-> loc[p].batchId, existingHashes |-> ExistingHashes(req[p].user)]]
  /\ pc' = [pc EXCEPT ![p] = "stage_rows"]
  /\ UNCHANGED <<batches, importRows, txs, now, req, resp, reqCount, staged>>
  /\ UNCHANGED tradeVars

\* rows.map((row, i) => ...)
StagedRowsNeverDupe(batchId, rows, existingHashes) ==
  {[batchId |-> batchId, rowNumber |-> i, rawData |-> rows[i],
    rowHash |-> RowHash(rows[i]), isDupe |-> FALSE]
     : i \in 1..Len(rows)}

\* a row also counts as a duplicate of an earlier row of its own list
StagedRowsCrossChecked(batchId, rows, existingHashes) ==
  {[batchId |-> batchId, rowNumber |-> i, rawData |-> rows[i],
    rowHash |-> RowHash(rows[i]),
    isDupe |-> \/ RowHash(rows[i]) \in existingHashes
               \/ \E j \in 1..(i - 1) : RowHash(rows[j]) = RowHash(rows[i])]
     : i \in 1..Len(rows)}

\* rowNumber: i
StagedRowsFromZero(batchId, rows, existingHashes) ==
  {[batchId |-> batchId, rowNumber |-> i - 1, rawData |-> rows[i],
    rowHash |-> RowHash(rows[i]), isDupe |-> RowHash(rows[i]) \in existingHashes]
     : i \in 1..Len(rows)}

StagedRows(batchId, rows, existingHashes) ==
  {[batchId |-> batchId, rowNumber |-> i, rawData |-> rows[i],
    rowHash |-> RowHash(rows[i]), isDupe |-> RowHash(rows[i]) \in existingHashes]
     : i \in 1..Len(rows)}

\* prisma.importRow.createMany, then the response
StageRows(p) ==
  /\ pc[p] = "stage_rows"
  /\ LET new == StagedRows(loc[p].batchId, req[p].rows, loc[p].existingHashes)
         dupeCount == Cardinality({r \in new : r.isDupe})
     IN  /\ importRows' = importRows \cup new
         /\ Finish(p, [kind |-> "ok", op |-> "stage", batchId |-> loc[p].batchId,
                       total |-> Len(req[p].rows), duplicates |-> dupeCount])
         /\ staged' = [b \in DOMAIN staged \cup {loc[p].batchId} |->
                         IF b = loc[p].batchId
                         THEN [total |-> Len(req[p].rows), duplicates |-> dupeCount,
                               existingHashes |-> loc[p].existingHashes]
                         ELSE staged[b]]
  /\ UNCHANGED <<batches, txs, now, req, reqCount>>
  /\ UNCHANGED tradeVars

(***************************************************************************)
(* GET /imports/:batchId/rows: a read, so an operator on the tables        *)
(***************************************************************************)
ListRows(user, batchId) ==
  IF BatchExists(batchId) /\ batches[batchId].userId = user
  THEN [kind |-> "ok", rows |-> RowsInOrder(RowsOf(batchId))]
  ELSE [kind |-> "error"]

(***************************************************************************)
(* POST /imports/:batchId/commit                                           *)
(***************************************************************************)
\* importBatch.findFirst({ where: { id, userId, status: 'staged' } })
CommitFindsAnyStatus(user, batchId) ==
  /\ BatchExists(batchId)
  /\ batches[batchId].userId = user

CommitFindsAnyOwner(user, batchId) ==
  /\ BatchExists(batchId)
  /\ batches[batchId].status = "staged"

CommitFinds(user, batchId) ==
  /\ BatchExists(batchId)
  /\ batches[batchId].userId = user
  /\ batches[batchId].status = "staged"

\* include: { rows: { where: { isDupe: false } } }
CommitRowsUnfiltered(batchId) == RowsOf(batchId)

CommitRows(batchId) == {r \in RowsOf(batchId) : ~r.isDupe}

CommitFind(p, user, batchId, accountId) ==
  /\ pc[p] = "idle"
  /\ req' = [req EXCEPT ![p] =
       [n |-> reqCount + 1, op |-> "commit", user |-> user, batchId |-> batchId, accountId |-> accountId]]
  /\ reqCount' = reqCount + 1
  /\ IF CommitFinds(user, batchId)
     THEN /\ loc' = [loc EXCEPT ![p] =
                [at |-> "commit", rows |-> RowsInOrder(CommitRows(batchId))]]
          /\ pc' = [pc EXCEPT ![p] = "commit_insert"]
          /\ resp' = resp
     ELSE Finish(p, [kind |-> "error", op |-> "commit"])
  /\ UNCHANGED <<batches, importRows, txs, now, staged>>
  /\ UNCHANGED tradeVars

\* batch.rows.map(row => ...): the Transaction derived from one staged row
DeriveTransaction(row, accountId) ==
  [accountId |-> accountId,
   date |-> ParseDate(row.rawData.date),
   description |-> IF row.rawData.description # "" THEN row.rawData.description
                   ELSE IF row.rawData.merchant # "" THEN row.rawData.merchant
                   ELSE "Unknown",
   merchant |-> row.rawData.merchant,
   amount |-> ParseFloat(row.rawData.amount),
   importBatchId |-> row.batchId,
   rowHash |-> row.rowHash]

\* prisma.transaction.createMany is one statement: it inserts every row, or
\* rejects the call (an Invalid Date is refused by the client) and inserts none
CommitInsert(p) ==
  /\ pc[p] = "commit_insert"
  /\ LET transactions == MapSeq(loc[p].rows, LAMBDA r : DeriveTransaction(r, req[p].accountId))
     IN  IF \E i \in 1..Len(transactions) : transactions[i].date = InvalidDate
         THEN /\ Finish(p, [kind |-> "throw", op |-> "commit"])
              /\ txs' = txs
         ELSE /\ txs' = txs (+) BagOfSeq(transactions)
              /\ pc' = [pc EXCEPT ![p] = "commit_update"]
              /\ UNCHANGED <<loc, resp>>
  /\ UNCHANGED <<batches, importRows, now, req, reqCount, staged>>
  /\ UNCHANGED tradeVars

\* prisma.importBatch.update({ where: { id }, data: { status: 'committed', committedAt } })
CommitUpdate(p) ==
  /\ pc[p] = "commit_update"
  /\ batches' = [batches EXCEPT ![req[p].batchId] =
       [@ EXCEPT !.status = "committed", !.committedAt = now]]
  /\ now' = now + 1
  /\ Finish(p, [kind |-> "ok", op |-> "commit", committed |-> Len(loc[p].rows)])
  /\ UNCHANGED <<importRows, txs, req, reqCount, staged>>
  /\ UNCHANGED tradeVars

(***************************************************************************)
(* POST /imports/:batchId/rollback                                         *)
(***************************************************************************)
\* prisma.transaction.deleteMany({ where: { importBatchId: batchId } })
RollbackDeleteNothing(p, user, batchId) ==
  /\ pc[p] = "idle"
  /\ req' = [req EXCEPT ![p] = [n |-> reqCount + 1, op |-> "rollback", user |-> user, batchId |-> batchId]]
  /\ reqCount' = reqCount + 1
  /\ txs' = txs
  /\ pc' = [pc EXCEPT ![p] = "rollback_update"]
  /\ loc' = [loc EXCEPT ![p] = [at |-> "rollback"]]
  /\ UNCHANGED <<batches, importRows, now, resp, staged>>
  /\ UNCHANGED tradeVars

RollbackDeleteEverything(p, user, batchId) ==
  /\ pc[p] = "idle"
  /\ req' = [req EXCEPT ![p] = [n |-> reqCount + 1, op |-> "rollback", user |-> user, batchId |-> batchId]]
  /\ reqCount' = reqCount + 1
  /\ txs' = EmptyBag
  /\ pc' = [pc EXCEPT ![p] = "rollback_update"]
  /\ loc' = [loc EXCEPT ![p] = [at |-> "rollback"]]
  /\ UNCHANGED <<batches, importRows, now, resp, staged>>
  /\ UNCHANGED tradeVars

RollbackDelete(p, user, batchId) ==
  /\ pc[p] = "idle"
  /\ req' = [req EXCEPT ![p] = [n |-> reqCount + 1, op |-> "rollback", user |-> user, batchId |-> batchId]]
  /\ reqCount' = reqCount + 1
  /\ txs' = BagWhere(txs, LAMBDA t : t.importBatchId # batchId)
  /\ pc' = [pc EXCEPT ![p] = "rollback_update"]
  /\ loc' = [loc EXCEPT ![p] = [at |-> "rollback"]]
  /\ UNCHANGED <<batches, importRows, now, resp, staged>>
  /\ UNCHANGED tradeVars

\* prisma.importBatch.update({ where: { id }, data: { status: 'rolledback' } });
\* update of a record that does not exist throws
RollbackUpdateCommittedOnly(p) ==
  /\ pc[p] = "rollback_update"
  /\ IF BatchExists(req[p].batchId) /\ batches[req[p].batchId].status = "committed"
     THEN /\ batches' = [batches EXCEPT ![req[p].batchId].status = "rolledback"]
          /\ Finish(p, [kind |-> "ok", op |-> "rollback"])
     ELSE /\ batches' = batches
          /\ Finish(p, [kind |-> "throw", op |-> "rollback"])
  /\ UNCHANGED <<importRows, txs, now, req, reqCount, staged>>
  /\ UNCHANGED tradeVars

RollbackUpdate(p) ==
  /\ pc[p] = "rollback_update"
  /\ IF BatchExists(req[p].batchId)
     THEN /\ batches' = [batches EXCEPT ![req[p].batchId].status = "rolledback"]
          /\ Finish(p, [kind |-> "ok", op |-> "rollback"])
     ELSE /\ batches' = batches
          /\ Finish(p, [kind |-> "throw", op |-> "rollback"])
  /\ UNCHANGED <<importRows, txs, now, req, reqCount, staged>>
  /\ UNCHANGED tradeVars

(***************************************************************************)
(* POST /transactions and PUT /transactions/:id.  The lookup that precedes *)
(* the write reads only what the write itself is keyed on, so each handler *)
(* is one step.                                                            *)
(***************************************************************************)
ManualTx == [date |-> "2024-01-01", description |-> "A", merchant |-> "", amount |-> 10]
ManualEdit == [date |-> "2024-01-02", description |-> "B", merchant |-> "", amount |-> 20]

CreateTransaction(p, user, accountId, body) ==
  /\ pc[p] = "idle"
  /\ req' = [req EXCEPT ![p] = [n |-> reqCount + 1, op |-> "createTx", user |-> user, accountId |-> accountId]]
  /\ reqCount' = reqCount + 1
  /\ IF AccountOwner(accountId) = user
     THEN /\ txs' = txs (+) SetToBag({[accountId |-> accountId, date |-> ParseDate(body.date),
                       description |-> body.description, merchant |-> body.merchant,
                       amount |-> body.amount, importBatchId |-> 0, rowHash |-> NoHash]})
          /\ Finish(p, [kind |-> "ok", op |-> "createTx"])
     ELSE /\ txs' = txs
          /\ Finish(p, [kind |-> "error", op |-> "createTx"])
  /\ UNCHANGED <<batches, importRows, now, staged>>
  /\ UNCHANGED tradeVars

\* the target is one Transaction of the caller: importBatchId and rowHash are not in data
UpdateTransaction(p, user, t, body) ==
  /\ pc[p] = "idle"
  /\ BagIn(t, txs)
  /\ AccountOwner(t.accountId) = user
  /\ req' = [req EXCEPT ![p] = [n |-> reqCount + 1, op |-> "updateTx", user |-> user]]
  /\ reqCount' = reqCount + 1
  /\ txs' = (txs (-) SetToBag({t})) (+)
            SetToBag({[t EXCEPT !.date = ParseDate(body.date), !.description = body.description,
                                !.merchant = body.merchant, !.amount = body.amount]})
  /\ Finish(p, [kind |-> "ok", op |-> "updateTx"])
  /\ UNCHANGED <<batches, importRows, now, staged>>
  /\ UNCHANGED tradeVars

(***************************************************************************)
(* Requests interleave at their awaits.                                    *)
(***************************************************************************)
Next ==
  \E p \in Procs :
    \/ reqCount < MaxReqs /\ \E u \in Users, rows \in RowLists : StageCreate(p, u, rows)
    \/ reqCount < MaxReqs /\ \E u \in Users, b \in BatchIds, a \in AccountIds : CommitFind(p, u, b, a)
    \/ reqCount < MaxReqs /\ \E u \in Users, b \in BatchIds : RollbackDelete(p, u, b)
    \/ reqCount < MaxReqs /\ \E u \in Users, a \in AccountIds : CreateTransaction(p, u, a, ManualTx)
    \/ reqCount < MaxReqs /\ \E u \in Users, t \in DOMAIN txs : UpdateTransaction(p, u, t, ManualEdit)
    \/ StageSnapshot(p)
    \/ StageRows(p)
    \/ CommitInsert(p)
    \/ CommitUpdate(p)
    \/ RollbackUpdate(p)

Spec == Init /\ [][Next]_vars

\* one request at a time: a request is received only after the previous response
SeqNext ==
  \/ reqCount < MaxSeqReqs /\ \E u \in Users, rows \in RowLists : StageCreate("p1", u, rows)
  \/ reqCount < MaxSeqReqs /\ \E u \in Users, b \in BatchIds, a \in AccountIds : CommitFind("p1", u, b, a)
  \/ reqCount < MaxSeqReqs /\ \E u \in Users, b \in BatchIds : RollbackDelete("p1", u, b)
  \/ reqCount < MaxSeqReqs /\ \E u \in Users, a \in AccountIds : CreateTransaction("p1", u, a, ManualTx)
  \/ reqCount < MaxSeqReqs /\ \E u \in Users, t \in DOMAIN txs : UpdateTransaction("p1", u, t, ManualEdit)
  \/ StageSnapshot("p1")
  \/ StageRows("p1")
  \/ CommitInsert("p1")
  \/ CommitUpdate("p1")
  \/ RollbackUpdate("p1")

SeqSpec == Init /\ [][SeqNext]_vars

\* one user staging, committing and rolling back the same file contents, one
\* request at a time
ReimportRowLists == {<<RowA>>, <<RowA, RowB>>}
ReimportNext ==
  \/ reqCount < MaxReimportReqs /\ \E rows \in ReimportRowLists : StageCreate("p1", "u1", rows)
  \/ reqCount < MaxReimportReqs /\ \E b \in BatchIds : CommitFind("p1", "u1", b, "acc1")
  \/ reqCount < MaxReimportReqs /\ \E b \in BatchIds : RollbackDelete("p1", "u1", b)
  \/ StageSnapshot("p1")
  \/ StageRows("p1")
  \/ CommitInsert("p1")
  \/ CommitUpdate("p1")
  \/ RollbackUpdate("p1")

ReimportSpec == Init /\ [][ReimportNext]_vars
(***************************************************************************)
(* Position accounting.  Money is an exact fraction [num, den], den > 0,   *)
(* in lowest terms; share quantities are whole numbers.                    *)
(***************************************************************************)
PortfolioIds == {"pf1"}
PortfolioOwner(id) == "u1"
Symbols == {"AAPL"}

Abs(x) == IF x < 0 THEN -x ELSE x
RECURSIVE GCD(_, _)
GCD(a, b) == IF b = 0 THEN a ELSE GCD(b, a % b)
Rat(n, d) == LET g == GCD(Abs(n), d) IN [num |-> n \div g, den |-> d \div g]
RatInt(n) == [num |-> n, den |-> 1]
RatAdd(x, y) == Rat(x.num * y.den + y.num * x.den, x.den * y.den)
RatMulInt(x, k) == Rat(x.num * k, x.den)
\* x / k for a whole number k other than 0
RatDivInt(x, k) == IF k > 0 THEN Rat(x.num, x.den * k) ELSE Rat(-x.num, x.den * (-k))

\* request bodies of POST /portfolios/:id/trades
TradeInputs ==
  {[type |-> "buy", shares |-> 10, price |-> 10, fees |-> 0, date |-> 1],
   [type |-> "buy", shares |-> 10, price |-> 20, fees |-> 0, date |-> 2],
   [type |-> "buy", shares |-> 1, price |-> 7, fees |-> 1, date |-> 1],
   [type |-> "sell", shares |-> 5, price |-> 30, fees |-> 1, date |-> 2],
   [type |-> "sell", shares |-> 15, price |-> 30, fees |-> 0, date |-> 3],
   [type |-> "dividend", shares |-> 10, price |-> 1, fees |-> 0, date |-> 3]}

NoHolding == [id |-> 0]
HoldingsOf(portfolioId, symbol) ==
  {h \in holdings : h.portfolioId = portfolioId /\ h.symbol = symbol}
\* const tradeAmount = shares * price + fees
TradeAmount(t) == t.shares * t.price + t.fees
\* data of holding.update in the buy branch
BuyUpdateNoFees(holding, t) ==
  [holding EXCEPT !.shares = holding.shares + t.shares,
                  !.costBasis = RatAdd(holding.costBasis, RatInt(t.shares * t.price))]

BuyUpdate(holding, t) ==
  [holding EXCEPT !.shares = holding.shares + t.shares,
                  !.costBasis = RatAdd(holding.costBasis, RatInt(TradeAmount(t)))]
\* the sell branch: newShares, avgCost, newCostBasis
NewShares(holding, t) == holding.shares - t.shares
AvgCost(holding) == RatDivInt(holding.costBasis, holding.shares)
\* the cost basis reduced by the proceeds of the sale
SellUpdateProceeds(holding, t) ==
  [holding EXCEPT !.shares = NewShares(holding, t),
                  !.costBasis = RatAdd(holding.costBasis, RatInt(0 - t.shares * t.price))]

SellUpdate(holding, t) ==
  [holding EXCEPT !.shares = NewShares(holding, t),
                  !.costBasis = RatMulInt(AvgCost(holding), NewShares(holding, t))]

\* if (newShares <= 0)
LiquidatesBelowZero(holding, t) == NewShares(holding, t) < 0

Liquidates(holding, t) == NewShares(holding, t) <= 0

\* if (type === 'buy') ... else if (type === 'sell' && holding): the branches
\* that write the Holding
MutatesHoldingAnySell(t, holding) == t.type = "buy" \/ t.type = "sell"

MutatesHoldingAnyType(t, holding) == t.type = "buy" \/ holding # NoHolding

MutatesHolding(t, holding) == t.type = "buy" \/ (t.type = "sell" /\ holding # NoHolding)

(***************************************************************************)
(* POST /portfolios/:id/trades                                             *)
(***************************************************************************)
\* portfolio.findFirst, then holding.findFirst({ where: { portfolioId, symbol } }):
\* with no orderBy, any matching row may be the one returned
TradeFind(p, user, portfolioId, symbol, t) ==
  /\ pc[p] = "idle"
  /\ req' = [req EXCEPT ![p] = [n |-> reqCount + 1, op |-> "trade", user |-> user, portfolioId |-> portfolioId,
                                symbol |-> symbol, trade |-> t]]
  /\ reqCount' = reqCount + 1
  /\ IF PortfolioOwner(portfolioId) # user
     THEN Finish(p, [kind |-> "error", op |-> "trade"])
     ELSE /\ \E holding \in IF HoldingsOf(portfolioId, symbol) = {} THEN {NoHolding}
                           ELSE HoldingsOf(portfolioId, symbol) :
               /\ loc' = [loc EXCEPT ![p] = [at |-> "trade", holding |-> holding]]
               /\ pc' = [pc EXCEPT ![p] =
                    IF MutatesHolding(t, holding)
                    THEN "trade_apply" ELSE "trade_record"]
          /\ resp' = resp
  /\ UNCHANGED <<holdings, trades, nextHoldingId>>
  /\ UNCHANGED importVars

\* update and delete are keyed on holding.id and throw when no such row is left
TradeApply(p) ==
  /\ pc[p] = "trade_apply"
  /\ LET holding == loc[p].holding
         t == req[p].trade
         stored == {h \in holdings : h.id = holding.id}
         goOn(h) == /\ loc' = [loc EXCEPT ![p].holding = h]
                    /\ pc' = [pc EXCEPT ![p] = "trade_record"]
                    /\ resp' = resp
         throw == /\ Finish(p, [kind |-> "throw", op |-> "trade"])
                  /\ UNCHANGED <<holdings, nextHoldingId>>
     IN  IF t.type = "buy"
         THEN IF holding # NoHolding
              THEN IF stored = {} THEN throw
                   ELSE /\ holdings' = (holdings \ stored) \cup {BuyUpdate(holding, t)}
                        /\ nextHoldingId' = nextHoldingId
                        /\ goOn(BuyUpdate(holding, t))
              ELSE LET created == [id |-> nextHoldingId, portfolioId |-> req[p].portfolioId,
                                   symbol |-> req[p].symbol, shares |-> t.shares,
                                   costBasis |-> RatInt(TradeAmount(t))]
                   IN  \/ /\ holdings' = holdings \cup {created}
                          /\ nextHoldingId' = nextHoldingId + 1
                          /\ goOn(created)
                       \* the schema is not in the sources: if it declares
                       \* (portfolioId, symbol) unique, a second create is refused
                       \/ /\ HoldingsOf(req[p].portfolioId, req[p].symbol) # {}
                          /\ throw
         ELSE IF stored = {} THEN throw
              ELSE IF Liquidates(holding, t)
                   THEN /\ holdings' = holdings \ stored
                        /\ nextHoldingId' = nextHoldingId
                        /\ goOn(NoHolding)
                   ELSE /\ holdings' = (holdings \ stored) \cup {SellUpdate(holding, t)}
                        /\ nextHoldingId' = nextHoldingId
                        /\ goOn(SellUpdate(holding, t))
  /\ UNCHANGED <<trades, req, reqCount>>
  /\ UNCHANGED importVars

\* prisma.trade.create({ data: { holdingId: holding?.id, ... } })
TradeRecordNoHolding(p) ==
  /\ pc[p] = "trade_record"
  /\ trades' = Append(trades,
       [portfolioId |-> req[p].portfolioId, holdingId |-> NoHolding.id,
        symbol |-> req[p].symbol, type |-> req[p].trade.type, shares |-> req[p].trade.shares,
        price |-> req[p].trade.price, fees |-> req[p].trade.fees, date |-> req[p].trade.date])
  /\ Finish(p, [kind |-> "ok", op |-> "trade", holdingId |-> NoHolding.id])
  /\ UNCHANGED <<holdings, nextHoldingId, req, reqCount>>
  /\ UNCHANGED importVars

TradeRecord(p) ==
  /\ pc[p] = "trade_record"
  /\ trades' = Append(trades,
       [portfolioId |-> req[p].portfolioId, holdingId |-> loc[p].holding.id,
        symbol |-> req[p].symbol, type |-> req[p].trade.type, shares |-> req[p].trade.shares,
        price |-> req[p].trade.price, fees |-> req[p].trade.fees, date |-> req[p].trade.date])
  /\ Finish(p, [kind |-> "ok", op |-> "trade", holdingId |-> loc[p].holding.id])
  /\ UNCHANGED <<holdings, nextHoldingId, req, reqCount>>
  /\ UNCHANGED importVars

TradeNext ==
  \E p \in Procs :
    \/ reqCount < MaxTrades /\ \E u \in Users, id \in PortfolioIds, sym \in Symbols, t \in TradeInputs :
                                 TradeFind(p, u, id, sym, t)
    \/ TradeApply(p)
    \/ TradeRecord(p)

TradeSpec == Init /\ [][TradeNext]_vars

\* one trade request at a time
TradeSeqNext ==
  \/ reqCount < MaxSeqTrades /\ \E u \in Users, id \in PortfolioIds, sym \in Symbols, t \in TradeInputs :
                                  TradeFind("p1", u, id, sym, t)
  \/ TradeApply("p1")
  \/ TradeRecord("p1")

TradeSeqSpec == Init /\ [][TradeSeqNext]_vars

(***************************************************************************)
(* POST /portfolios/:id/holdings                                           *)
(***************************************************************************)
\* request bodies: { symbol, shares, costBasis }
UpsertInputs == {[shares |-> 5, costBasis |-> 50], [shares |-> 0, costBasis |-> 0]}

\* if (existing)
UpsertNeverFinds(existing) == FALSE

UpsertFinds(existing) == existing # NoHolding

\* portfolio.findFirst, then holding.findFirst({ where: { portfolioId: id, symbol } })
UpsertFind(p, user, portfolioId, symbol, body) ==
  /\ pc[p] = "idle"
  /\ req' = [req EXCEPT ![p] = [n |-> reqCount + 1, op |-> "upsert", user |-> user,
                                portfolioId |-> portfolioId, symbol |-> symbol, body |-> body]]
  /\ reqCount' = reqCount + 1
  /\ IF PortfolioOwner(portfolioId) # user
     THEN Finish(p, [kind |-> "error", op |-> "upsert"])
     ELSE /\ \E existing \in IF HoldingsOf(portfolioId, symbol) = {} THEN {NoHolding}
                            ELSE HoldingsOf(portfolioId, symbol) :
               loc' = [loc EXCEPT ![p] = [at |-> "upsert", holding |-> existing]]
          /\ pc' = [pc EXCEPT ![p] = "upsert_apply"]
          /\ resp' = resp
  /\ UNCHANGED <<holdings, trades, nextHoldingId>>
  /\ UNCHANGED importVars

\* holding.update({ where: { id: existing.id }, ... }) or holding.create
UpsertApply(p) ==
  /\ pc[p] = "upsert_apply"
  /\ LET existing == loc[p].holding
         body == req[p].body
         stored == {h \in holdings : h.id = existing.id}
         updated == [existing EXCEPT !.shares = existing.shares + body.shares,
                                     !.costBasis = RatAdd(existing.costBasis, RatInt(body.costBasis))]
         created == [id |-> nextHoldingId, portfolioId |-> req[p].portfolioId,
                     symbol |-> req[p].symbol, shares |-> body.shares,
                     costBasis |-> RatInt(body.costBasis)]
         throw == /\ Finish(p, [kind |-> "throw", op |-> "upsert"])
                  /\ UNCHANGED <<holdings, nextHoldingId>>
     IN  IF UpsertFinds(existing)
         THEN IF stored = {} THEN throw
              ELSE /\ holdings' = (holdings \ stored) \cup {updated}
                   /\ nextHoldingId' = nextHoldingId
                   /\ Finish(p, [kind |-> "ok", op |-> "upsert", holdingId |-> updated.id])
         ELSE \/ /\ holdings' = holdings \cup {created}
                 /\ nextHoldingId' = nextHoldingId + 1
                 /\ Finish(p, [kind |-> "ok", op |-> "upsert", holdingId |-> created.id])
              \* refused if the schema declares (portfolioId, symbol) unique
              \/ /\ HoldingsOf(req[p].portfolioId, req[p].symbol) # {}
                 /\ throw
  /\ UNCHANGED <<trades, req, reqCount>>
  /\ UNCHANGED importVars

\* the route validates nothing: a quantity of zero and a negative price are
\* accepted like any other body
PortfolioTradeInputs ==
  TradeInputs \cup
  {[type |-> "buy", shares |-> 0, price |-> 10, fees |-> 0, date |-> 1],
   [type |-> "buy", shares |-> 1, price |-> -5, fees |-> 0, date |-> 1]}

\* trades and holding upserts, one request at a time
PortfolioSeqNext ==
  \/ reqCount < MaxPortfolioReqs
       /\ \E u \in Users, id \in PortfolioIds, sym \in Symbols, t \in PortfolioTradeInputs :
            TradeFind("p1", u, id, sym, t)
  \/ reqCount < MaxPortfolioReqs
       /\ \E u \in Users, id \in PortfolioIds, sym \in Symbols, body \in UpsertInputs :
            UpsertFind("p1", u, id, sym, body)
  \/ TradeApply("p1")
  \/ TradeRecord("p1")
  \/ UpsertApply("p1")

PortfolioSeqSpec == Init /\ [][PortfolioSeqNext]_vars

(***************************************************************************)
(* Vocabulary of the properties.                                           *)
(***************************************************************************)
Quiescent == \A p \in Procs : pc[p] = "idle"
NonDupRows(b) == {r \in RowsOf(b) : ~r.isDupe}
TxCountOfBatch(b) == BagSize(TxsOfBatch(b))
\* every non-duplicate row of b has exactly one Transaction, and b has no other
MaterializedOnce(b) ==
  /\ TxCountOfBatch(b) = Cardinality(NonDupRows(b))
  /\ \A r \in NonDupRows(b) :
       BagSize(BagWhere(TxsOfBatch(b), LAMBDA t : t.rowHash = r.rowHash))
         = Cardinality({o \in NonDupRows(b) : o.rowHash = r.rowHash})

(***************************************************************************)
(* C1: commit is all-or-nothing in every reachable state, the states       *)
(* between the steps of a commit included: a batch that has not been       *)
(* rolled back is either staged with no Transaction carrying its id, or    *)
(* committed with exactly one Transaction per non-duplicate row.           *)
(***************************************************************************)
C1_CommitAllOrNothing ==
  \A b \in DOMAIN batches :
    \/ batches[b].status = "rolledback"
    \/ batches[b].status = "staged" /\ TxCountOfBatch(b) = 0
    \/ batches[b].status = "committed" /\ MaterializedOnce(b)

(***************************************************************************)
(* C2 as claimed: once a batch has left staged its status never changes    *)
(* again.                                                                  *)
(***************************************************************************)
C2_TerminalOnceLeftStaged ==
  [][\A b \in DOMAIN batches :
       batches[b].status # "staged" => batches'[b].status = batches[b].status]_vars

(***************************************************************************)
(* C2 as amended: over any sequence of stage, commit and rollback calls a  *)
(* batch is never deleted and its status moves only staged -> committed,   *)
(* staged -> rolledback or committed -> rolledback: it never returns to    *)
(* staged, and rolledback is the one terminal status.                      *)
(***************************************************************************)
StatusMoves ==
  {<<"staged", "committed">>, <<"staged", "rolledback">>, <<"committed", "rolledback">>}

C2_StatusOneWay ==
  [][\A b \in DOMAIN batches :
       /\ b \in DOMAIN batches'
       /\ \/ batches'[b].status = batches[b].status
          \/ <<batches[b].status, batches'[b].status>> \in StatusMoves]_vars

\* a committed batch has been rolled back
C2_Witness ==
  \E b \in DOMAIN batches : batches[b].status = "rolledback" /\ batches[b].committedAt # 0
(***************************************************************************)
(* C3: a commit on a batch that does not exist, is owned by another user   *)
(* or is not staged answers with an error in its first step and changes    *)
(* no table: no Transaction is inserted, and the batch's status and        *)
(* committedAt stay as they were.                                          *)
(***************************************************************************)
CommitBegins(p) ==
  pc[p] = "idle" /\ reqCount' = reqCount + 1 /\ req'[p].op = "commit" /\ req'[p].n = reqCount'
Committable(user, b) ==
  b \in DOMAIN batches /\ batches[b].userId = user /\ batches[b].status = "staged"

C3_CommitRejectedChangesNothing ==
  [][\A p \in Procs :
       CommitBegins(p) /\ ~Committable(req'[p].user, req'[p].batchId)
         => /\ pc'[p] = "idle"
            /\ resp'[p] = [kind |-> "error", op |-> "commit"]
            /\ UNCHANGED <<batches, importRows, txs>>]_vars

\* a commit on a committed or rolled-back batch of the caller was rejected
C3_Witness ==
  \E p \in Procs :
    /\ pc[p] = "idle"
    /\ resp[p] = [kind |-> "error", op |-> "commit"]
    /\ req[p].op = "commit"
    /\ req[p].batchId \in DOMAIN batches
    /\ batches[req[p].batchId].userId = req[p].user
    /\ batches[req[p].batchId].status = "committed"

(***************************************************************************)
(* C4: a commit of a staged batch that succeeds inserts exactly one        *)
(* Transaction per row with isDupe = false and none for the others, each   *)
(* with importBatchId = the batch and the rowHash of its row; it returns   *)
(* committed = N = total - duplicates as stage reported them, sets         *)
(* status = committed and committedAt, and leaves rowCount unchanged.      *)
(***************************************************************************)
C4_InsertStep(p) ==
  LET b == req[p].batchId
      new == txs' (-) txs
  IN  /\ txs' = txs (+) new
      /\ BagSize(new) = Cardinality(NonDupRows(b))
      /\ \A t \in DOMAIN new : t.importBatchId = b /\ t.accountId = req[p].accountId
      /\ \A r \in RowsOf(b) :
           BagSize(BagWhere(new, LAMBDA t : t.rowHash = r.rowHash))
             = Cardinality({o \in NonDupRows(b) : o.rowHash = r.rowHash})

C4_UpdateStep(p) ==
  LET b == req[p].batchId
  IN  /\ resp'[p].kind = "ok"
      /\ resp'[p].committed = Cardinality(NonDupRows(b))
      /\ resp'[p].committed = staged[b].total - staged[b].duplicates
      /\ batches'[b].status = "committed"
      /\ batches'[b].committedAt # 0
      /\ batches'[b].rowCount = batches[b].rowCount
      /\ batches'[b].rowCount = staged[b].total
      /\ UNCHANGED <<txs, importRows>>

C4_CommitMaterializesNonDuplicates ==
  [][\A p \in Procs :
       /\ pc[p] = "commit_insert" /\ pc'[p] = "commit_update" => C4_InsertStep(p)
       /\ pc[p] = "commit_update" /\ pc'[p] = "idle" => C4_UpdateStep(p)]_vars

\* a batch of two rows, one of them a duplicate, has been committed: committed = 1
C4_Witness ==
  \E p \in Procs :
    /\ pc[p] = "idle"
    /\ req[p].op = "commit"
    /\ resp[p] = [kind |-> "ok", op |-> "commit", committed |-> 1]
    /\ batches[req[p].batchId].rowCount = 2
    /\ staged[req[p].batchId].duplicates = 1
    /\ TxCountOfBatch(req[p].batchId) = 1

(***************************************************************************)
(* C5: no Transaction of a batch is ever created in an account that the    *)
(* batch's owning user does not own.                                       *)
(***************************************************************************)
C5_CommitOnlyIntoOwnAccount ==
  \A t \in DOMAIN txs :
    t.importBatchId \in DOMAIN batches
      => AccountOwner(t.accountId) = batches[t.importBatchId].userId

(***************************************************************************)
(* C6: a rollback of an existing batch is accepted in any status and ends  *)
(* with status = rolledback and no Transaction of the batch; a rollback    *)
(* that starts from that end state changes no table.                       *)
(***************************************************************************)
RollbackSteps(p, b) ==
  \/ pc[p] = "idle" /\ pc'[p] = "rollback_update" /\ req'[p].batchId = b /\ req'[p].n = reqCount'
  \/ pc[p] = "rollback_update" /\ req[p].batchId = b /\ pc'[p] = "idle"

C6_RollbackIdempotent ==
  [][\A p \in Procs : \A b \in DOMAIN batches :
       /\ pc[p] = "rollback_update" /\ req[p].batchId = b /\ pc'[p] = "idle"
            => /\ resp'[p] = [kind |-> "ok", op |-> "rollback"]
               /\ batches'[b].status = "rolledback"
               /\ BagSize(BagWhere(txs', LAMBDA t : t.importBatchId = b)) = 0
       /\ RollbackSteps(p, b) /\ batches[b].status = "rolledback" /\ TxCountOfBatch(b) = 0
            => UNCHANGED <<batches, importRows, txs>>]_vars

\* a batch was committed and rolled back, and a second rollback of it has
\* passed its deleteMany
C6_Witness ==
  \E p \in Procs :
    /\ pc[p] = "rollback_update"
    /\ req[p].batchId \in DOMAIN batches
    /\ batches[req[p].batchId].status = "rolledback"
    /\ batches[req[p].batchId].committedAt # 0

(***************************************************************************)
(* C7: commit and rollback of one batch are mutually exclusive: when no    *)
(* request is in flight, a batch that is rolledback or staged has no       *)
(* Transaction carrying its importBatchId.                                 *)
(***************************************************************************)
C7_CommitRollbackExclusive ==
  Quiescent =>
    \A b \in DOMAIN batches :
      batches[b].status \in {"rolledback", "staged"} => TxCountOfBatch(b) = 0

(***************************************************************************)
(* C8: however commits interleave, a batch is materialized once: the       *)
(* ledger never holds more Transactions of a batch than the batch has      *)
(* non-duplicate rows.                                                     *)
(***************************************************************************)
C8_CommittedOnce ==
  \A b \in DOMAIN batches :
    TxCountOfBatch(b) <= Cardinality(NonDupRows(b))
(***************************************************************************)
(* C9: trades on one (portfolioId, symbol) lose no update: when all have   *)
(* been answered, the Holding of the key is what applying the recorded     *)
(* trades one after the other, in some order, leaves.                      *)
(***************************************************************************)
\* what one trade served alone makes of a position: <<>> is Absent
PositionAfter(position, t) ==
  CASE t.type = "buy" /\ position = <<>> ->
         [shares |-> t.shares, costBasis |-> RatInt(TradeAmount(t))]
    [] t.type = "buy" /\ position # <<>> ->
         [shares |-> BuyUpdate(position, t).shares, costBasis |-> BuyUpdate(position, t).costBasis]
    [] t.type = "sell" /\ position # <<>> ->
         IF NewShares(position, t) <= 0 THEN <<>>
         ELSE [shares |-> SellUpdate(position, t).shares,
               costBasis |-> SellUpdate(position, t).costBasis]
    [] OTHER -> position
\* the stored rows of a key as positions
PositionsOf(portfolioId, symbol) ==
  {[shares |-> h.shares, costBasis |-> h.costBasis] : h \in HoldingsOf(portfolioId, symbol)}
AsRows(position) == IF position = <<>> THEN {} ELSE {position}

\* the position a list of trades leaves when they are served one after another
RECURSIVE PositionAfterAll(_, _)
PositionAfterAll(position, ts) ==
  IF ts = <<>> THEN position
  ELSE PositionAfterAll(PositionAfter(position, Head(ts)), Tail(ts))
Orders(n) == {f \in [1..n -> 1..n] : \A i, j \in 1..n : f[i] = f[j] => i = j}
SerialOutcomes(ts) ==
  {AsRows(PositionAfterAll(<<>>, [i \in 1..Len(ts) |-> ts[f[i]]])) : f \in Orders(Len(ts))}

\* every request was a trade on the one key and was answered with its Trade;
\* the key is left with at most one Holding row
C9_NoLostUpdate ==
  (/\ Quiescent
   /\ Len(trades) = reqCount
   /\ \A sym \in Symbols, id \in PortfolioIds : Cardinality(HoldingsOf(id, sym)) <= 1)
  => \A sym \in Symbols, id \in PortfolioIds :
       PositionsOf(id, sym) \in SerialOutcomes(trades)

(***************************************************************************)
(* C10 as claimed: when stage has answered, a row of the new batch is      *)
(* flagged isDupe exactly when its canonical content (date, description,   *)
(* merchant, amount) is the content of a Transaction in the caller's       *)
(* accounts, however that Transaction was created.                         *)
(***************************************************************************)
StageAnswered(p) == pc[p] = "idle" /\ req[p].op = "stage" /\ resp[p].kind = "ok"
TxContent(t) == <<t.date, t.description, t.merchant, t.amount>>
CanonicalContent(row) ==
  <<ParseDate(row.date), row.description, row.merchant, ParseFloat(row.amount)>>

C10_DupeIffContentInLedger ==
  \A p \in Procs :
    StageAnswered(p) =>
      \A r \in RowsOf(resp[p].batchId) :
        r.isDupe <=> \E t \in DOMAIN TxsOfUser(req[p].user) : TxContent(t) = CanonicalContent(r.rawData)

(***************************************************************************)
(* C10 as amended: when stage has answered (no other request served in     *)
(* between), a row of the new batch is flagged isDupe exactly when the     *)
(* digest of the row as submitted is the rowHash stored on a Transaction   *)
(* in the caller's accounts.                                               *)
(***************************************************************************)
C10_DupeIffHashInLedger ==
  \A p \in Procs :
    StageAnswered(p) =>
      \A r \in RowsOf(resp[p].batchId) :
        /\ r.rowHash = <<r.rawData.date, r.rawData.description, r.rawData.merchant,
                         r.rawData.amount.type, r.rawData.amount.val>>
        /\ r.isDupe <=> \E t \in DOMAIN TxsOfUser(req[p].user) : t.rowHash = r.rowHash

\* stage flagged one row of two as a duplicate, while the caller also holds a
\* hand-made Transaction
C10_Witness ==
  \E p \in Procs :
    /\ StageAnswered(p)
    /\ resp[p].total = 2
    /\ resp[p].duplicates = 1
    /\ \E t \in DOMAIN TxsOfUser(req[p].user) : t.rowHash = NoHash
(***************************************************************************)
(* C11: rows are never checked against rows that are not committed: a row  *)
(* is flagged only if a Transaction of the caller carries its hash, so     *)
(* rows alike within one batch, or in two batches staged before either is  *)
(* committed, are all isDupe = false; and a commit creates one Transaction *)
(* for each of them.                                                       *)
(***************************************************************************)
CommitAnswered(p) == pc[p] = "idle" /\ req[p].op = "commit" /\ resp[p].kind = "ok"
HashInLedgerOf(user, h) == \E t \in DOMAIN TxsOfUser(user) : t.rowHash = h

C11_NoCrossCheckOfUncommittedRows ==
  \A p \in Procs :
    /\ StageAnswered(p) =>
         \A r \in RowsOf(resp[p].batchId) :
           ~HashInLedgerOf(req[p].user, r.rowHash) => ~r.isDupe
    /\ CommitAnswered(p) =>
         \A r \in NonDupRows(req[p].batchId) :
           BagSize(BagWhere(TxsOfBatch(req[p].batchId), LAMBDA t : t.rowHash = r.rowHash))
             = Cardinality({o \in RowsOf(req[p].batchId) : ~o.isDupe /\ o.rowHash = r.rowHash})

\* two batches of one user hold a row of the same hash, neither flagged; both
\* are committed into that user's accounts, one Transaction each
C11_Witness ==
  /\ Len(batches) = 2
  /\ batches[1].userId = batches[2].userId
  /\ batches[1].status = "committed" /\ batches[2].status = "committed"
  /\ \A t \in DOMAIN txs : AccountOwner(t.accountId) = batches[1].userId
  /\ \E r1 \in NonDupRows(1), r2 \in NonDupRows(2) : r1.rowHash = r2.rowHash
  /\ TxCountOfBatch(1) = Cardinality(RowsOf(1))
  /\ TxCountOfBatch(2) = Cardinality(RowsOf(2))

(***************************************************************************)
(* C12 as claimed: a batch staged from three rows whose third repeats the  *)
(* first, rows 1 and 2 matching no committed Transaction, reports total 3  *)
(* and duplicates 1; its commit returns committed = 2 and creates 2        *)
(* Transactions; its rollback removes them and leaves status rolledback.   *)
(***************************************************************************)
RollbackAnswered(p) == pc[p] = "idle" /\ req[p].op = "rollback" /\ resp[p].kind = "ok"
ScenarioBatch(b) ==
  /\ ListRows(batches[b].userId, b).kind = "ok"
  /\ LET rows == ListRows(batches[b].userId, b).rows
     IN  /\ Len(rows) = 3
         /\ rows[1].rawData = RowA /\ rows[2].rawData = RowB /\ rows[3].rawData = RowA
         /\ ~rows[1].isDupe /\ ~rows[2].isDupe
ScenarioRuns(b, duplicates) ==
  /\ staged[b].total = 3 /\ staged[b].duplicates = duplicates
  /\ \A p \in Procs :
       /\ CommitAnswered(p) /\ req[p].batchId = b
            => resp[p].committed = 3 - duplicates /\ TxCountOfBatch(b) = 3 - duplicates
       /\ RollbackAnswered(p) /\ req[p].batchId = b
            => TxCountOfBatch(b) = 0 /\ batches[b].status = "rolledback"

C12_ScenarioOneDuplicate ==
  \A b \in DOMAIN batches : ScenarioBatch(b) => ScenarioRuns(b, 1)

(***************************************************************************)
(* C12 as amended: the same batch reports total 3 and duplicates 0 (the    *)
(* third row is not checked against the first); its commit returns         *)
(* committed = 3 and creates 3 Transactions; its rollback removes those 3  *)
(* and leaves status rolledback.                                           *)
(***************************************************************************)
C12_ScenarioNoDuplicate ==
  \A b \in DOMAIN batches : ScenarioBatch(b) => ScenarioRuns(b, 0)

\* the scenario's batch was committed and has then been rolled back
C12_Witness ==
  \E p \in Procs : \E b \in DOMAIN batches :
    /\ ScenarioBatch(b)
    /\ RollbackAnswered(p) /\ req[p].batchId = b
    /\ batches[b].committedAt # 0

(***************************************************************************)
(* C13: a stage of n rows creates exactly one ImportBatch, staged, with    *)
(* rowCount = n, and exactly n ImportRows numbered 1..n in input order;    *)
(* it returns total = n and duplicates = the number of rows flagged, and   *)
(* listRows returns the rows in ascending rowNumber order.                 *)
(***************************************************************************)
C13_StageAnswer(p) ==
  \A b \in {loc[p].batchId} : \A user \in {req[p].user} :
    LET n == Len(req[p].rows)
        listed == ListRows(user, b)'
    IN  /\ resp'[p].kind = "ok" /\ resp'[p].batchId = b
        /\ batches' = batches
        /\ batches[b] = [userId |-> user, status |-> "staged", rowCount |-> n,
                         committedAt |-> 0]
        /\ RowsOf(b) = {}
        /\ \A r \in importRows : r \in importRows'
        /\ Cardinality(importRows') = Cardinality(importRows) + n
        /\ listed.kind = "ok"
        /\ Len(listed.rows) = n
        /\ \A i \in 1..n : /\ listed.rows[i].rowNumber = i
                           /\ listed.rows[i].rawData = req[p].rows[i]
                           /\ listed.rows[i].batchId = b
        /\ resp'[p].total = n
        /\ resp'[p].duplicates = Cardinality({i \in 1..n : listed.rows[i].isDupe})
        /\ 0 <= resp'[p].duplicates /\ resp'[p].duplicates <= resp'[p].total

C13_StageCreatesBatchAndRows ==
  [][\A p \in Procs :
       /\ pc[p] = "idle" /\ pc'[p] = "stage_snapshot"
            => /\ Len(batches') = Len(batches) + 1
               /\ \A b \in DOMAIN batches : batches'[b] = batches[b]
               /\ importRows' = importRows
       /\ pc[p] = "stage_snapshot" /\ pc'[p] = "stage_rows"
            => UNCHANGED <<batches, importRows>>
       /\ pc[p] = "stage_rows" /\ pc'[p] = "idle" => C13_StageAnswer(p)]_vars

\* a stage of three rows has answered total 3, duplicates 2
C13_Witness ==
  \E p \in Procs : StageAnswered(p) /\ resp[p].total = 3 /\ resp[p].duplicates = 2

(***************************************************************************)
(* C14: rowHash depends only on the canonical content of a row: two staged *)
(* rows with the same date, description, merchant and amount have the same *)
(* rowHash, whatever the representation of their values.                   *)
(***************************************************************************)
C14_HashOfCanonicalContent ==
  \A r1, r2 \in importRows :
    CanonicalContent(r1.rawData) = CanonicalContent(r2.rawData) => r1.rowHash = r2.rowHash

(***************************************************************************)
(* Vocabulary of the trade properties.                                     *)
(***************************************************************************)
\* p takes the first step of a trade request
TradeBegins(p) ==
  pc[p] = "idle" /\ reqCount' = reqCount + 1 /\ req'[p].op = "trade" /\ req'[p].n = reqCount'
\* p's buy or sell branch has written the Holding
TradeApplied(p) == pc[p] = "trade_apply" /\ pc'[p] = "trade_record"
TradeRecorded(p) == pc[p] = "trade_record" /\ pc'[p] = "idle"
TradeAnswered(p) == pc[p] = "idle" /\ req[p].op = "trade" /\ resp[p].kind = "ok"
OnKey(hs, r) == {h \in hs : h.portfolioId = r.portfolioId /\ h.symbol = r.symbol}
TradeRow(r, holdingId) ==
  [portfolioId |-> r.portfolioId, holdingId |-> holdingId, symbol |-> r.symbol,
   type |-> r.trade.type, shares |-> r.trade.shares, price |-> r.trade.price,
   fees |-> r.trade.fees, date |-> r.trade.date]
RECURSIVE SumOfShares(_)
SumOfShares(ts) == IF ts = <<>> THEN 0 ELSE Head(ts).shares + SumOfShares(Tail(ts))
RECURSIVE SumOfAmounts(_)
SumOfAmounts(ts) ==
  IF ts = <<>> THEN 0
  ELSE Head(ts).shares * Head(ts).price + Head(ts).fees + SumOfAmounts(Tail(ts))

(***************************************************************************)
(* C15: a buy of q shares at price p with fees f adds q to shares and      *)
(* q*p+f to costBasis: with no Holding it creates one of (q, q*p+f), on a  *)
(* Holding it yields (shares+q, costBasis+q*p+f); after buys only, shares  *)
(* is the sum of the q's and costBasis the sum of the trade amounts.       *)
(***************************************************************************)
C15_BuysOnlyTotals ==
  (Quiescent /\ trades # <<>> /\ \A i \in DOMAIN trades : trades[i].type = "buy")
    => \A id \in PortfolioIds, sym \in Symbols :
         LET ts == SelectSeq(trades, LAMBDA t : t.portfolioId = id /\ t.symbol = sym)
         IN  ts # <<>> =>
               PositionsOf(id, sym) =
                 {[shares |-> SumOfShares(ts), costBasis |-> RatInt(SumOfAmounts(ts))]}

C15_BuyAddsSharesAndCost ==
  [][/\ \A p \in Procs :
          TradeApplied(p) /\ req[p].trade.type = "buy" =>
            LET t == req[p].trade
                amount == RatInt(t.shares * t.price + t.fees)
                before == OnKey(holdings, req[p])
                after == OnKey(holdings', req[p])
            IN  /\ holdings' \ after = holdings \ before
                /\ before = {} =>
                     \E h \in after : /\ after = {h}
                                      /\ h.shares = t.shares /\ h.costBasis = amount
                /\ \A b \in before :
                     after = {[b EXCEPT !.shares = b.shares + t.shares,
                                        !.costBasis = RatAdd(b.costBasis, amount)]}
     /\ C15_BuysOnlyTotals']_vars

\* buy 10 @ 10 then 10 @ 20, fee 0: shares 20, costBasis 300
C15_Witness ==
  /\ Quiescent
  /\ Len(trades) = 2 /\ trades[1].type = "buy" /\ trades[2].type = "buy"
  /\ trades[1].price = 10 /\ trades[2].price = 20
  /\ PositionsOf("pf1", "AAPL") = {[shares |-> 20, costBasis |-> RatInt(300)]}

(***************************************************************************)
(* C16: a sell of q shares, 0 < q < shares, keeps the Holding with         *)
(* shares' = shares - q and costBasis' = (costBasis / shares) * shares',   *)
(* so costBasis' * shares = costBasis * shares'; the price and the fees of *)
(* the sell do not affect the Holding.  (Amounts are exact fractions here; *)
(* the rounding of the code's floating point is not represented.)          *)
(***************************************************************************)
C16_PartialSellKeepsAvgCost ==
  [][\A p \in Procs :
       TradeApplied(p) /\ req[p].trade.type = "sell" =>
         LET t == req[p].trade
             before == OnKey(holdings, req[p])
             after == OnKey(holdings', req[p])
         IN  \A b \in before :
               (0 < t.shares /\ t.shares < b.shares) =>
                 /\ holdings' \ after = holdings \ before
                 /\ \E a \in after :
                      /\ after = {a}
                      /\ a.id = b.id
                      /\ a.shares = b.shares - t.shares
                      /\ a.costBasis.den > 0 /\ b.costBasis.den > 0
                      /\ a.costBasis.num * b.costBasis.den * b.shares
                           = b.costBasis.num * a.costBasis.den * a.shares
                      /\ \A price, fees \in {0, 1, 30} :
                           SellUpdate(b, [t EXCEPT !.price = price, !.fees = fees]) = a]_vars

\* from shares 20, costBasis 300, a sell of 5 has left shares 15, costBasis 225
C16_Witness ==
  /\ Quiescent
  /\ Len(trades) = 3 /\ trades[3].type = "sell" /\ trades[3].shares = 5
  /\ trades[1].type = "buy" /\ trades[2].type = "buy"
  /\ PositionsOf("pf1", "AAPL") = {[shares |-> 15, costBasis |-> RatInt(225)]}

(***************************************************************************)
(* C17: a sell of q >= shares on a Holding deletes it: no Holding row is   *)
(* left for the key, no Holding with zero or negative shares is stored     *)
(* (trade quantities being positive), and a later buy starts a new Holding *)
(* whose costBasis is that buy's trade amount alone.                       *)
(***************************************************************************)
C17_LiquidationDeletesHolding ==
  [][/\ \A p \in Procs :
          LET t == req[p].trade
              before == OnKey(holdings, req[p])
              after == OnKey(holdings', req[p])
          IN  /\ TradeApplied(p) /\ t.type = "sell" =>
                   /\ \A b \in before : t.shares >= b.shares => after = {}
                   /\ \A a \in after : a.shares > 0
              /\ TradeApplied(p) /\ t.type = "buy" /\ before = {} =>
                   \E a \in after :
                     /\ after = {a}
                     /\ a.shares = t.shares
                     /\ a.costBasis = RatInt(t.shares * t.price + t.fees)
                     /\ \A i \in DOMAIN trades : trades[i].holdingId # a.id
     /\ \A h \in holdings' : h.shares > 0]_vars

\* the Holding of the key is the second one created: the first was deleted by
\* a sell and a later buy has started anew
C17_Witness ==
  /\ Quiescent
  /\ \E i \in DOMAIN trades : trades[i].type = "sell" /\ trades[i].shares = 5
                              /\ i > 1 /\ trades[i - 1].type = "sell"
  /\ \E h \in HoldingsOf("pf1", "AAPL") : h.id = 2 /\ h.shares = 1 /\ h.costBasis = RatInt(8)

(***************************************************************************)
(* C18: a sell for a key with no Holding is accepted without error,        *)
(* creates and changes no Holding, and appends exactly one Trade, with     *)
(* holdingId null.                                                         *)
(***************************************************************************)
C18_SellWithoutHolding ==
  [][\A p \in Procs :
       /\ (/\ TradeBegins(p)
           /\ req'[p].trade.type = "sell"
           /\ PortfolioOwner(req'[p].portfolioId) = req'[p].user
           /\ OnKey(holdings, req'[p]) = {})
            => /\ pc'[p] = "trade_record"
               /\ loc'[p].holding = NoHolding
               /\ holdings' = holdings /\ trades' = trades
       /\ (/\ TradeRecorded(p)
           /\ req[p].trade.type = "sell"
           /\ loc[p].holding = NoHolding)
            => /\ resp'[p].kind = "ok"
               /\ holdings' = holdings
               /\ trades' = Append(trades, TradeRow(req[p], NoHolding.id))]_vars

\* no Holding was ever created, and a sell has been answered with its Trade
C18_Witness ==
  \E p \in Procs :
    /\ TradeAnswered(p) /\ req[p].trade.type = "sell"
    /\ nextHoldingId = 1 /\ holdings = {}
    /\ trades # <<>> /\ trades[Len(trades)] = TradeRow(req[p], NoHolding.id)

(***************************************************************************)
(* C19: a dividend trade creates, changes and deletes no Holding, whether  *)
(* or not the symbol has one; it appends exactly one Trade and has no      *)
(* other effect.                                                           *)
(***************************************************************************)
C19_DividendOnlyAppendsTrade ==
  [][\A p \in Procs :
       /\ (/\ TradeBegins(p)
           /\ req'[p].trade.type = "dividend"
           /\ PortfolioOwner(req'[p].portfolioId) = req'[p].user)
            => /\ pc'[p] = "trade_record"
               /\ holdings' = holdings /\ trades' = trades
       /\ (/\ req[p].op = "trade" /\ req[p].trade.type = "dividend"
           /\ pc[p] # "idle" /\ pc'[p] # pc[p])
            => /\ pc[p] = "trade_record"
               /\ resp'[p].kind = "ok"
               /\ holdings' = holdings /\ nextHoldingId' = nextHoldingId
               /\ \E holdingId \in {0} \cup {h.id : h \in OnKey(holdings, req[p])} :
                    trades' = Append(trades, TradeRow(req[p], holdingId))]_vars

\* a dividend on a symbol that has a Holding was answered; the Holding is as
\* the buy before it left it
C19_Witness ==
  \E p \in Procs :
    /\ TradeAnswered(p) /\ req[p].trade.type = "dividend"
    /\ Len(trades) = 2 /\ trades[1].type = "buy" /\ trades[1].price = 10
    /\ trades[2].type = "dividend" /\ trades[2].holdingId = 1
    /\ PositionsOf("pf1", "AAPL") = {[shares |-> 10, costBasis |-> RatInt(100)]}

BuysAndSells(portfolioId, symbol) ==
  SelectSeq(trades, LAMBDA t : /\ t.portfolioId = portfolioId /\ t.symbol = symbol
                               /\ t.type \in {"buy", "sell"})
DateOrders(ts) ==
  {f \in Orders(Len(ts)) : \A i, j \in 1..Len(ts) : i < j => ts[f[i]].date <= ts[f[j]].date}
ReplayOutcomes(ts) ==
  {AsRows(PositionAfterAll(<<>>, [i \in 1..Len(ts) |-> ts[f[i]]])) : f \in DateOrders(ts)}

C21_HoldingIsReplayOfTrades ==
  Quiescent =>
    \A id \in PortfolioIds, sym \in Symbols :
      PositionsOf(id, sym) \in ReplayOutcomes(BuysAndSells(id, sym))

(***************************************************************************)
(* C22: after any sequence of trades (buy, sell, dividend) whose share     *)
(* quantities are all positive, every stored Holding has shares > 0 and    *)
(* costBasis >= 0.                                                         *)
(***************************************************************************)
\* every request so far was a trade that was recorded: no upsert took place
OnlyTradesSoFar == Quiescent /\ Len(trades) = reqCount
C22_OpenHoldingsOnly ==
  (OnlyTradesSoFar /\ \A i \in DOMAIN trades : trades[i].shares > 0)
    => \A h \in holdings : h.shares > 0 /\ h.costBasis.num >= 0

(***************************************************************************)
(* C23: a rollback called by a user who does not own the batch fails       *)
(* before any mutation: it is answered with an error, deletes no           *)
(* Transaction and does not change the batch's status.                     *)
(***************************************************************************)
C23_RollbackOwnerOnly ==
  [][\A p \in Procs : \A b \in DOMAIN batches :
       /\ (/\ pc[p] = "idle" /\ pc'[p] = "rollback_update"
           /\ req'[p].n = reqCount' /\ req'[p].batchId = b
           /\ req'[p].user # batches[b].userId)
            => UNCHANGED <<batches, txs>>
       /\ (/\ pc[p] = "rollback_update" /\ pc'[p] = "idle"
           /\ req[p].batchId = b /\ req[p].user # batches[b].userId)
            => UNCHANGED <<batches, txs>> /\ resp'[p].kind = "error"]_vars

(***************************************************************************)
(* C24: staging leaves no partial write observable: in every reachable     *)
(* state every ImportBatch has exactly rowCount ImportRows.                *)
(***************************************************************************)
C24_BatchHasAllItsRows ==
  \A b \in DOMAIN batches : Cardinality(RowsOf(b)) = batches[b].rowCount

(***************************************************************************)
(* C25: the division avgCost = costBasis / shares of a sell is always      *)
(* safe: whatever trades and holding upserts were accepted before, a sell  *)
(* is never applied to a Holding whose shares are 0.                       *)
(***************************************************************************)
C25_SellNeverDividesByZero ==
  \A p \in Procs :
    (pc[p] = "trade_apply" /\ req[p].trade.type = "sell") => loc[p].holding.shares # 0

(***************************************************************************)
(* C29: with requests served one at a time, after any sequence of trades   *)
(* and holding upserts there is at most one Holding row for each           *)
(* (portfolioId, symbol).                                                  *)
(***************************************************************************)
C29_OneHoldingPerKey ==
  \A id \in PortfolioIds, sym \in Symbols : Cardinality(HoldingsOf(id, sym)) <= 1

\* an upsert created the Holding, a buy and a second upsert have added to it
C29_Witness ==
  /\ Quiescent
  /\ req["p1"].op = "upsert" /\ resp["p1"].kind = "ok"
  /\ Len(trades) = 1 /\ trades[1].type = "buy" /\ trades[1].holdingId = 1
  /\ holdings = {[id |-> 1, portfolioId |-> "pf1", symbol |-> "AAPL", shares |-> 20,
                  costBasis |-> RatInt(200)]}

(***************************************************************************)
(* C26: rollback deletes exactly the Transactions whose importBatchId is   *)
(* the batch's id: Transactions of other batches and Transactions made     *)
(* outside imports are unchanged; commit and rollback never create, change *)
(* or delete an ImportRow and never delete an ImportBatch.                 *)
(***************************************************************************)
\* p takes a step of a commit or of a rollback
CommitOrRollbackStep(p) ==
  \/ /\ pc[p] = "idle" /\ reqCount' = reqCount + 1
     /\ req'[p].op \in {"commit", "rollback"} /\ req'[p].n = reqCount'
  \/ /\ pc[p] \in {"commit_insert", "commit_update", "rollback_update"}
     /\ pc'[p] # pc[p]

C26_RollbackDeletesOnlyItsBatch ==
  [][\A p \in Procs :
       /\ (pc[p] = "idle" /\ pc'[p] = "rollback_update" /\ req'[p].n = reqCount')
            => /\ \A t \in DOMAIN txs' : BagIn(t, txs)
               /\ \A t \in DOMAIN txs :
                    IF t.importBatchId = req'[p].batchId
                    THEN ~BagIn(t, txs')
                    ELSE CopiesIn(t, txs') = CopiesIn(t, txs)
       /\ (pc[p] = "rollback_update" /\ pc'[p] = "idle") => txs' = txs
       /\ CommitOrRollbackStep(p)
            => /\ importRows' = importRows
               /\ Len(batches') = Len(batches)
               /\ \A b \in DOMAIN batches :
                    /\ batches'[b].userId = batches[b].userId
                    /\ batches'[b].rowCount = batches[b].rowCount]_vars

\* a committed batch was rolled back: its Transactions are gone, a hand-made
\* Transaction and the Transactions of another batch are still there
C26_Witness ==
  \E p \in Procs : \E b \in DOMAIN batches :
    /\ RollbackAnswered(p) /\ req[p].batchId = b
    /\ TxCountOfBatch(b) = 0
    /\ \/ batches[b].committedAt # 0 /\ \E t \in DOMAIN txs : t.importBatchId = 0
       \/ \E o \in DOMAIN batches : o # b /\ TxCountOfBatch(o) > 0

(***************************************************************************)
(* C27: the duplicate snapshot is scoped to the staging user: the isDupe   *)
(* flags and the duplicates count of a stage by user U are determined by   *)
(* U's rows and the rowHashes of the Transactions in U's accounts; a       *)
(* Transaction with the same hash in another user's account never makes a  *)
(* row of U a duplicate.                                                   *)
(***************************************************************************)
HashesInAccountsOf(user) ==
  {t.rowHash : t \in {x \in DOMAIN txs : AccountOwner(x.accountId) = user}}

C27_SnapshotScopedToUser ==
  [][\A p \in Procs :
       /\ (pc[p] = "stage_snapshot" /\ pc'[p] = "stage_rows")
            => loc'[p].existingHashes \subseteq HashesInAccountsOf(req[p].user)
       /\ (pc[p] = "stage_rows" /\ pc'[p] = "idle")
            => LET own == HashesInAccountsOf(req[p].user)
                   rows == req[p].rows
                   new == importRows' \ importRows
               IN  /\ \A r \in new : r.isDupe <=> RowHash(rows[r.rowNumber]) \in own
                   /\ resp'[p].duplicates
                        = Cardinality({i \in 1..Len(rows) : RowHash(rows[i]) \in own})]_vars

\* a stage has left a row unflagged although a Transaction in another user's
\* account carries its hash
C27_Witness ==
  \E p \in Procs :
    /\ StageAnswered(p)
    /\ \E r \in RowsOf(resp[p].batchId) :
         /\ ~r.isDupe
         /\ \E t \in DOMAIN txs : /\ t.rowHash = r.rowHash
                                  /\ AccountOwner(t.accountId) # req[p].user

(***************************************************************************)
(* C28: a commit never re-inserts what the staging snapshot saw: no        *)
(* Transaction created by committing a batch carries a rowHash that was on *)
(* a Transaction in the staging user's accounts when the batch was staged. *)
(***************************************************************************)
C28_CommitSkipsWhatSnapshotSaw ==
  \A b \in DOMAIN staged :
    \A t \in DOMAIN TxsOfBatch(b) : t.rowHash \notin staged[b].existingHashes

\* a committed batch had a row whose hash the snapshot held; only its other
\* row became a Transaction
C28_Witness ==
  \E b \in DOMAIN staged :
    /\ Quiescent
    /\ batches[b].status = "committed"
    /\ staged[b].existingHashes # {}
    /\ \E r \in RowsOf(b) : r.isDupe /\ r.rowHash \in staged[b].existingHashes
    /\ TxCountOfBatch(b) = 1

(***************************************************************************)
(* C30: rollback makes the content of a batch importable again: after a    *)
(* batch is committed and then rolled back, a stage of the same rows (no   *)
(* batch that is still committed holding a row of those hashes) flags none *)
(* of them, and a commit of the new batch creates one Transaction per row. *)
(***************************************************************************)
\* some batch other than b is committed and materialized a row of hash h
HeldByCommittedBatch(h, b) ==
  \E o \in DOMAIN batches :
    /\ o # b
    /\ batches[o].status = "committed"
    /\ \E r \in NonDupRows(o) : r.rowHash = h

C30_RollbackMakesRowsImportable ==
  \A p \in Procs :
    /\ StageAnswered(p) =>
         \A r \in RowsOf(resp[p].batchId) :
           ~HeldByCommittedBatch(r.rowHash, resp[p].batchId) => ~r.isDupe
    /\ CommitAnswered(p) =>
         LET b == req[p].batchId
         IN  (\A r \in RowsOf(b) : ~r.isDupe)
               => /\ resp[p].committed = batches[b].rowCount
                  /\ TxCountOfBatch(b) = batches[b].rowCount
                  /\ MaterializedOnce(b)

\* batch 1 was committed and rolled back; batch 2, staged from the same rows,
\* has no row flagged and is committed with one Transaction per row
C30_Witness ==
  /\ Quiescent
  /\ Len(batches) = 2
  /\ batches[1].status = "rolledback" /\ batches[1].committedAt # 0
  /\ batches[2].status = "committed"
  /\ batches[2].userId = batches[1].userId
  /\ {<<r.rowNumber, r.rawData>> : r \in RowsOf(2)} = {<<r.rowNumber, r.rawData>> : r \in RowsOf(1)}
  /\ \A r \in RowsOf(2) : ~r.isDupe
  /\ TxCountOfBatch(1) = 0
  /\ TxCountOfBatch(2) = 2
====
